---- MODULE Spec2Model ----
(***************************************************************************)
(* lepakmasjid: the submissions API (submissionsApi), the users API        *)
(* (usersApi.updatePassword) and the audit_logs permission-fix script,     *)
(* each with the part of the PocketBase backend it talks to.               *)
(*                                                                         *)
(* Three independent programs, four specifications:                        *)
(*   ListingSpec  submissionsApi.list, listMySubmissions, get, create      *)
(*   ReviewSpec   submissionsApi.create, get, update, reject, approve      *)
(*   UsersSpec    usersApi.updatePassword over the 'users' collection      *)
(*   ScriptSpec   scripts/fix-audit-logs-permissions.js                    *)
(***************************************************************************)
EXTENDS Naturals, Sequences, FiniteSets, TLC

VARIABLES
  authStore,     \* pb.authStore.model: the signed-in user's id, "" when none
  submissions,   \* backend collection 'submissions': record id -> record
  mosqueLog,     \* the mosquesApi.create / update calls that succeeded
  call,          \* the submissionsApi call in progress or last finished
  userPassword,  \* backend: the stored password of the signed-in account
  ucall,         \* the usersApi.updatePassword call in progress or finished
  env,           \* the script's process.env
  collections,   \* backend: collection id -> [name, rules]
  proc           \* the script's process: pc, readline, exit code, requests

vars == <<authStore, submissions, mosqueLog, call, userPassword, ucall,
          env, collections, proc>>

subVars    == <<authStore, submissions, mosqueLog, call>>
userVars   == <<userPassword, ucall>>
scriptVars == <<env, collections, proc>>

(***************************************************************************)
(* Bounds and input sets                                                   *)
(***************************************************************************)
MaxMosqueLog   == 2        \* mosquesApi calls recorded before approve stops

Undefined == "undefined"   \* a JavaScript undefined property value
NoFile    == ""            \* no File object / an empty file field
EmptyObj  == [k \in {} |-> ""]

Truthy(s) == s # "" /\ s # Undefined

Merge(base, patch) ==
  [k \in (DOMAIN base) \cup (DOMAIN patch) |->
     IF k \in DOMAIN patch THEN patch[k] ELSE base[k]]

Without(obj, key) == [k \in (DOMAIN obj) \ {key} |-> obj[k]]

\* ids the backend hands out to new submission records, in order
IdPool == <<"sub000000000001", "sub000000000002">>
MosqueId == "msq000000000001"
MalformedIds == {"", "x\" || id != \""}
WellFormedIds == {IdPool[i] : i \in 1..Len(IdPool)} \cup {MosqueId}
IdInputs == {IdPool[1], IdPool[Len(IdPool)]} \cup MalformedIds

SubmissionStatuses == {"pending", "approved", "rejected"}
StatusInputs == SubmissionStatuses \cup
                {Undefined, "", "archived", "x\" || status != \""}

UserIds   == {"usr000000000001"}
Reviewers == {"adm000000000001"}
Times     == {"2025-01-01T00:00:00.000Z", "2025-06-01T00:00:00.000Z"}
Reasons   == {"duplicate"}
Files     == {"photo.jpg", "huge.bmp"}
Types     == {"new_mosque", "edit_mosque"}
MosqueIdInputs == {"", MosqueId, "../users"}

\* the embedded data objects a submitter may send
DataInputs ==
  { EmptyObj,
    [name |-> "Masjid A", address |-> "Jalan 1", lat |-> "3.1", lng |-> "101.6"],
    [name |-> "Masjid B", status |-> "rejected", description |-> Undefined],
    [name |-> "Masjid C", created_by |-> "usr999999999999", role |-> "admin",
     image |-> "evil.svg"] }

BackendError == "ClientResponseError"


(***************************************************************************)
(* Helpers outside src/: ../validation, ../pocketbase-images, ./mosques    *)
(***************************************************************************)
validateSubmissionStatus(status) == status \in SubmissionStatuses

validateRecordId(id) == id \in WellFormedIds

\* null ("") when the file is acceptable, else the error message
validateImageFile(file) == IF file = "photo.jpg" THEN "" ELSE "Invalid image file"

(***************************************************************************)
(* A request to the backend (or to mosquesApi) and a call of submissionsApi*)
(***************************************************************************)
Req(api, id, filter, body, image, ok) ==
  [api |-> api, id |-> id, filter |-> filter, body |-> body,
   image |-> image, ok |-> ok]

IdleCall ==
  [op |-> "none", pc |-> "idle", id |-> "", status |-> "", auth |-> "",
   reviewedBy |-> "", submission |-> EmptyObj, sanitizedData |-> EmptyObj,
   imageFile |-> NoFile, fetchFailed |-> FALSE, reqs |-> <<>>, result |-> ""]

\* a call that has returned ("ok") or thrown (the error message)
Finished(op, reqs, result) ==
  [IdleCall EXCEPT !.op = op, !.pc = "done", !.reqs = reqs, !.result = result]

Outcome(ok) == IF ok THEN "ok" ELSE BackendError

NoCallRunning == call.pc \in {"idle", "done"}

(***************************************************************************)
(* submissionsApi.list, listMySubmissions                                  *)
(***************************************************************************)
list(status, net) ==
  IF Truthy(status) /\ ~validateSubmissionStatus(status)
  THEN [Finished("list", <<>>, "Invalid status parameter")
          EXCEPT !.status = status]
  ELSE LET filter == IF Truthy(status)
                     THEN <<"status = \"", status, "\"">>
                     ELSE <<>>
       IN [Finished("list",
                    <<Req("submissions.getList", "", filter, EmptyObj, NoFile, net)>>,
                    Outcome(net))
             EXCEPT !.status = status]

\* listMySubmissions without the allow-list check on status
listMySubmissions_unvalidated(model, status, net) ==
  IF ~Truthy(model)
  THEN [Finished("listMySubmissions", <<>>, "User not authenticated")
          EXCEPT !.status = status, !.auth = model]
  ELSE LET owner == <<"submitted_by = \"", model, "\"">>
           filter == IF Truthy(status)
                     THEN owner \o <<" && status = \"", status, "\"">>
                     ELSE owner
       IN [Finished("listMySubmissions",
                    <<Req("submissions.getList", "", filter, EmptyObj, NoFile, net)>>,
                    Outcome(net))
             EXCEPT !.status = status, !.auth = model]

listMySubmissions(model, status, net) ==
  IF ~Truthy(model)
  THEN [Finished("listMySubmissions", <<>>, "User not authenticated")
          EXCEPT !.status = status, !.auth = model]
  ELSE IF Truthy(status) /\ ~validateSubmissionStatus(status)
  THEN [Finished("listMySubmissions", <<>>, "Invalid status parameter")
          EXCEPT !.status = status, !.auth = model]
  ELSE LET owner == <<"submitted_by = \"", model, "\"">>
           filter == IF Truthy(status)
                     THEN owner \o <<" && status = \"", status, "\"">>
                     ELSE owner
       IN [Finished("listMySubmissions",
                    <<Req("submissions.getList", "", filter, EmptyObj, NoFile, net)>>,
                    Outcome(net))
             EXCEPT !.status = status, !.auth = model]

List(status, net) ==
  /\ NoCallRunning
  /\ call' = list(status, net)
  /\ UNCHANGED <<authStore, submissions, mosqueLog, userVars, scriptVars>>

ListMySubmissions(status, net) ==
  /\ NoCallRunning
  /\ call' = listMySubmissions(authStore, status, net)
  /\ UNCHANGED <<authStore, submissions, mosqueLog, userVars, scriptVars>>

(***************************************************************************)
(* submissionsApi.get, create, update, reject                              *)
(***************************************************************************)
\* pb.collection('submissions').getOne(id): found when the record exists
get(id, net) ==
  IF ~validateRecordId(id)
  THEN [reqs |-> <<>>, result |-> "Invalid submission ID format",
        record |-> EmptyObj]
  ELSE LET ok == net /\ id \in DOMAIN submissions
       IN [reqs |-> <<Req("submissions.getOne", id, <<>>, EmptyObj, NoFile, ok)>>,
           result |-> Outcome(ok),
           record |-> IF ok THEN submissions[id] ELSE EmptyObj]

\* pb.collection('submissions').update(id, data): a patch of the record
update(id, data, net) ==
  LET ok == net /\ id \in DOMAIN submissions
  IN [reqs |-> <<Req("submissions.update", id, <<>>, data, NoFile, ok)>>,
      result |-> Outcome(ok),
      store |-> IF ok THEN [submissions EXCEPT ![id] = Merge(@, data)]
                      ELSE submissions]

reject(id, reviewedBy, reason, now, net) ==
  update(id, [status |-> "rejected", reviewed_by |-> reviewedBy,
              reviewed_at |-> now, rejection_reason |-> reason], net)

\* JSON.stringify then the backend's parse: undefined properties are dropped
JsonRoundTrip(obj) == [k \in {x \in DOMAIN obj : obj[x] # Undefined} |-> obj[k]]

\* the record the backend stores for a create request
NewRecord(id, fields, image) ==
  [id |-> id, type |-> fields.type, data |-> JsonRoundTrip(fields.data),
   mosque_id |-> fields.mosque_id, image |-> image, status |-> fields.status,
   submitted_by |-> fields.submitted_by, reviewed_by |-> "",
   reviewed_at |-> "", rejection_reason |-> ""]

create(submissionData, imageFile, net) ==
  LET id == IdPool[Cardinality(DOMAIN submissions) + 1]
      stored(rec) == [i \in (DOMAIN submissions) \cup {id} |->
                        IF i = id THEN rec ELSE submissions[i]]
  IN IF imageFile # NoFile /\ validateImageFile(imageFile) # ""
     THEN [reqs |-> <<>>, result |-> validateImageFile(imageFile),
           store |-> submissions]
     ELSE IF imageFile # NoFile
     THEN LET dataWithoutImage == Without(submissionData.data, "image")
              formData == [submissionData EXCEPT !.data = dataWithoutImage]
          IN [reqs |-> <<Req("submissions.create", "", <<>>, formData, imageFile, net)>>,
              result |-> Outcome(net),
              store |-> IF net THEN stored(NewRecord(id, formData, imageFile))
                               ELSE submissions]
     ELSE [reqs |-> <<Req("submissions.create", "", <<>>, submissionData, NoFile, net)>>,
           result |-> Outcome(net),
           store |-> IF net THEN stored(NewRecord(id, submissionData, NoFile))
                            ELSE submissions]

Get(id, net) ==
  /\ NoCallRunning
  /\ LET g == get(id, net)
     IN call' = [Finished("get", g.reqs, g.result) EXCEPT !.id = id]
  /\ UNCHANGED <<authStore, submissions, mosqueLog, userVars, scriptVars>>

Create(type, data, mosque_id, submitted_by, imageFile, net) ==
  /\ NoCallRunning
  /\ submissions = EmptyObj      \* the model follows one record through review
  /\ LET c == create([type |-> type, data |-> data, mosque_id |-> mosque_id,
                      status |-> "pending", submitted_by |-> submitted_by],
                     imageFile, net)
     IN /\ call' = Finished("create", c.reqs, c.result)
        /\ submissions' = c.store
  /\ UNCHANGED <<authStore, mosqueLog, userVars, scriptVars>>

Update(id, data, net) ==
  /\ NoCallRunning
  /\ LET u == update(id, data, net)
     IN /\ call' = [Finished("update", u.reqs, u.result) EXCEPT !.id = id]
        /\ submissions' = u.store
  /\ UNCHANGED <<authStore, mosqueLog, userVars, scriptVars>>

Reject(id, reviewedBy, reason, now, net) ==
  /\ NoCallRunning
  /\ LET u == reject(id, reviewedBy, reason, now, net)
     IN /\ call' = [Finished("reject", u.reqs, u.result)
                      EXCEPT !.id = id, !.reviewedBy = reviewedBy]
        /\ submissions' = u.store
  /\ UNCHANGED <<authStore, mosqueLog, userVars, scriptVars>>

(***************************************************************************)
(* submissionsApi.approve                                                  *)
(***************************************************************************)
ALLOWED_MOSQUE_FIELDS ==
  <<"name", "name_bm", "address", "state", "lat", "lng",
    "description", "description_bm", "status">>

AllowedFieldSet == {ALLOWED_MOSQUE_FIELDS[i] : i \in 1..Len(ALLOWED_MOSQUE_FIELDS)}

\* the submission's data copied whole (mass assignment)
sanitize_copyAll(data) ==
  [field \in {f \in DOMAIN data : data[f] # Undefined} |-> data[field]]

\* the loop over ALLOWED_MOSQUE_FIELDS
sanitize(data) ==
  [field \in {f \in AllowedFieldSet : f \in DOMAIN data /\ data[f] # Undefined}
     |-> data[field]]

\* sanitizedData as it stands before the image is handled
sanitizedDataFor(submission) ==
  IF submission.type = "new_mosque"
  THEN Merge(sanitize(submission.data),
             [status |-> "approved", created_by |-> submission.submitted_by])
  ELSE sanitize(submission.data)

\* const submission = await this.get(id), then the synchronous code up to
\* the image step
approve_get(id, reviewedBy, net) ==
  LET g == get(id, net)
  IN IF g.result # "ok"
     THEN [Finished("approve", g.reqs, g.result)
             EXCEPT !.id = id, !.reviewedBy = reviewedBy]
     ELSE [IdleCall EXCEPT
             !.op = "approve", !.id = id, !.reviewedBy = reviewedBy,
             !.pc = IF Truthy(g.record.image) THEN "image" ELSE "mosque",
             !.submission = g.record,
             !.sanitizedData = sanitizedDataFor(g.record),
             !.reqs = g.reqs]

\* what getImageFileFromRecord may do: throw, return null, return a File
FetchOutcomes == {"throws", "null"} \cup Files

\* the image step without its catch: a failed fetch ends the approval
approve_image_rethrows(c, outcome) ==
  LET r == Req("files.getImage", c.id, <<>>, EmptyObj, c.submission.image,
               outcome # "throws")
  IN IF outcome = "throws"
     THEN [c EXCEPT !.pc = "done", !.result = BackendError,
                    !.fetchFailed = TRUE, !.reqs = Append(@, r)]
     ELSE [c EXCEPT
             !.pc = "mosque",
             !.imageFile = IF outcome \in Files /\ validateImageFile(outcome) = ""
                           THEN outcome ELSE NoFile,
             !.reqs = Append(@, r)]

\* the try / catch around getImageFileFromRecord and validateImageFile
approve_image(c, outcome) ==
  [c EXCEPT
     !.pc = "mosque",
     !.fetchFailed = (outcome = "throws"),
     !.imageFile = IF outcome \in Files /\ validateImageFile(outcome) = ""
                   THEN outcome ELSE NoFile,
     !.reqs = Append(@, Req("files.getImage", c.id, <<>>, EmptyObj,
                            c.submission.image, outcome # "throws"))]

Throw(c, message) == [c EXCEPT !.pc = "done", !.result = message]

\* mosquesApi.create / mosquesApi.update, or neither
approve_mosque(c, net) ==
  IF c.submission.type = "new_mosque"
  THEN LET r == Req("mosquesApi.create", "", <<>>, c.sanitizedData, c.imageFile, net)
       IN IF net THEN [c EXCEPT !.pc = "update", !.reqs = Append(@, r)]
                 ELSE Throw([c EXCEPT !.reqs = Append(@, r)], BackendError)
  ELSE IF c.submission.type = "edit_mosque" /\ Truthy(c.submission.mosque_id)
  THEN IF ~validateRecordId(c.submission.mosque_id)
       THEN Throw(c, "Invalid mosque ID format")
       ELSE LET r == Req("mosquesApi.update", c.submission.mosque_id, <<>>,
                         c.sanitizedData, c.imageFile, net)
            IN IF net THEN [c EXCEPT !.pc = "update", !.reqs = Append(@, r)]
                      ELSE Throw([c EXCEPT !.reqs = Append(@, r)], BackendError)
  ELSE [c EXCEPT !.pc = "update"]

\* return await this.update(id, {status: 'approved', ...})
approve_update(c, now, net) ==
  LET u == update(c.id, [status |-> "approved", reviewed_by |-> c.reviewedBy,
                         reviewed_at |-> now], net)
  IN [call |-> [c EXCEPT !.pc = "done", !.result = u.result,
                         !.reqs = @ \o u.reqs],
      store |-> u.store]

\* the mosquesApi call that just succeeded, with the submission it served
LogEntry(c) ==
  [req |-> c.reqs[Len(c.reqs)], submission |-> c.id]

ApproveGet(id, reviewedBy, net) ==
  /\ NoCallRunning
  /\ Len(mosqueLog) < MaxMosqueLog
  /\ call' = approve_get(id, reviewedBy, net)
  /\ UNCHANGED <<authStore, submissions, mosqueLog, userVars, scriptVars>>

ApproveImage(outcome) ==
  /\ call.pc = "image"
  /\ call' = approve_image(call, outcome)
  /\ UNCHANGED <<authStore, submissions, mosqueLog, userVars, scriptVars>>

ApproveMosque(net) ==
  /\ call.pc = "mosque"
  /\ call' = approve_mosque(call, net)
  /\ mosqueLog' = IF Len(call'.reqs) > Len(call.reqs) /\ call'.pc = "update"
                  THEN Append(mosqueLog, LogEntry(call'))
                  ELSE mosqueLog
  /\ UNCHANGED <<authStore, submissions, userVars, scriptVars>>

ApproveUpdate(now, net) ==
  /\ call.pc = "update"
  /\ LET a == approve_update(call, now, net)
     IN /\ call' = a.call
        /\ submissions' = a.store
  /\ UNCHANGED <<authStore, mosqueLog, userVars, scriptVars>>

(***************************************************************************)
(* The submissions program                                                 *)
(***************************************************************************)
UpdateInputs == {[status |-> "pending"]}

\* usersApi and the script at rest
IdleUCall ==
  [pc |-> "idle", auth |-> "", oldPassword |-> "", newPassword |-> "",
   passwordConfirm |-> "", reqs |-> <<>>, result |-> ""]

IdleProc ==
  [pc |-> "boot", rlOpen |-> FALSE, exited |-> FALSE, exitCode |-> "",
   authSuccess |-> "", email |-> "", password |-> "",
   collection |-> EmptyObj, reqs |-> <<>>]

SubmissionsInit ==
  /\ authStore \in {""} \cup UserIds \cup Reviewers
  /\ submissions = EmptyObj
  /\ mosqueLog = <<>>
  /\ call = IdleCall
  /\ userPassword = ""
  /\ ucall = IdleUCall
  /\ env = EmptyObj
  /\ collections = EmptyObj
  /\ proc = IdleProc

\* list, listMySubmissions and get over a collection a submitter fills
ListingNext ==
  \/ \E status \in StatusInputs, net \in BOOLEAN : List(status, net)
  \/ \E status \in StatusInputs, net \in BOOLEAN : ListMySubmissions(status, net)
  \/ \E id \in IdInputs, net \in BOOLEAN : Get(id, net)
  \/ \E type \in Types, data \in DataInputs, mosque_id \in MosqueIdInputs,
        submitted_by \in UserIds, imageFile \in {NoFile} \cup Files,
        net \in BOOLEAN :
       Create(type, data, mosque_id, submitted_by, imageFile, net)

ListingSpec == SubmissionsInit /\ [][ListingNext]_vars

\* the review of a submission: create, get, update, reject, approve
ReviewNext ==
  \/ \E type \in Types, data \in DataInputs, mosque_id \in MosqueIdInputs,
        submitted_by \in UserIds, imageFile \in {NoFile} \cup Files,
        net \in BOOLEAN :
       Create(type, data, mosque_id, submitted_by, imageFile, net)
  \/ \E id \in IdInputs, net \in BOOLEAN : Get(id, net)
  \/ \E id \in IdInputs, data \in UpdateInputs, net \in BOOLEAN :
       Update(id, data, net)
  \/ \E id \in IdInputs, reviewedBy \in Reviewers, reason \in Reasons,
        now \in Times, net \in BOOLEAN :
       Reject(id, reviewedBy, reason, now, net)
  \/ \E id \in IdInputs, reviewedBy \in Reviewers, net \in BOOLEAN :
       ApproveGet(id, reviewedBy, net)
  \/ \E outcome \in FetchOutcomes : ApproveImage(outcome)
  \/ \E net \in BOOLEAN : ApproveMosque(net)
  \/ \E now \in Times, net \in BOOLEAN : ApproveUpdate(now, net)

\* a reviewer is signed in throughout
ReviewInit == SubmissionsInit /\ authStore \in Reviewers

ReviewSpec == ReviewInit /\ [][ReviewNext]_vars

(***************************************************************************)
(* Properties of submissionsApi                                            *)
(***************************************************************************)
ReqIdx == 1..Len(call.reqs)

\* a status argument that is non-empty and outside the closed set
InvalidStatus(status) ==
  Truthy(status) /\ status \notin {"pending", "approved", "rejected"}

ValidStatus(status) == status \in {"pending", "approved", "rejected"}

ListCallDone ==
  call.pc = "done" /\ call.op \in {"list", "listMySubmissions"}

\* the values a filter compares the status field with
StatusValues(filter) ==
  {filter[i] : i \in {j \in 2..Len(filter) :
                        filter[j - 1] \in {"status = \"", " && status = \""}}}

\* C1 as stated: in list and listMySubmissions every non-empty status outside
\* {pending, approved, rejected} fails with 'Invalid status parameter' and
\* issues no request; a status of the set reaches getList in the filter.
C1_InvalidStatusAlwaysThatError ==
  ListCallDone =>
    /\ InvalidStatus(call.status) =>
         call.result = "Invalid status parameter" /\ call.reqs = <<>>
    /\ ValidStatus(call.status) =>
         \A i \in ReqIdx : StatusValues(call.reqs[i].filter) = {call.status}

\* C1 amended: an invalid status never reaches the backend; the error is
\* 'Invalid status parameter', except that listMySubmissions with no signed-in
\* user fails with 'User not authenticated' first. A valid status is issued
\* in exactly one getList whose filter compares status with that value only.
C1_InvalidStatusRejected ==
  ListCallDone =>
    /\ InvalidStatus(call.status) =>
         /\ call.reqs = <<>>
         /\ call.result =
              IF call.op = "listMySubmissions" /\ call.auth = ""
              THEN "User not authenticated"
              ELSE "Invalid status parameter"
    /\ (ValidStatus(call.status) /\ (call.op = "list" \/ call.auth # "")) =>
         /\ Len(call.reqs) = 1
         /\ call.reqs[1].api = "submissions.getList"
         /\ StatusValues(call.reqs[1].filter) = {call.status}
    /\ \A i \in ReqIdx : StatusValues(call.reqs[i].filter) \subseteq {call.status}

C1_Witness ==
  /\ ListCallDone
  /\ call.op = "listMySubmissions"
  /\ call.auth # ""
  /\ InvalidStatus(call.status)
  /\ call.result = "Invalid status parameter"

\* C2: in get, approve, update and reject an id that fails the record-ID
\* format check makes the call fail before any request is issued.
C2_MalformedIdRejected ==
  (/\ call.pc = "done"
   /\ call.op \in {"get", "approve", "update", "reject"}
   /\ ~validateRecordId(call.id))
  => (call.reqs = <<>> /\ call.result \notin {"", "ok"})

\* the allow-list as the claim gives it
C3_AllowList ==
  {"name", "name_bm", "address", "state", "lat", "lng",
   "description", "description_bm", "status"}

CreateReqs == {i \in ReqIdx : call.reqs[i].api = "mosquesApi.create"}

\* C3 as stated: every field passed to mosquesApi.create is a field of the
\* allow-list, and no key of submission.data outside it is in the record.
C3_OnlyAllowListedFields ==
  call.op = "approve" =>
    \A i \in CreateReqs :
      /\ DOMAIN call.reqs[i].body \subseteq C3_AllowList
      /\ \A k \in (DOMAIN call.submission.data) \ C3_AllowList :
           k \notin DOMAIN call.reqs[i].body

\* C3 amended: every field passed to mosquesApi.create is a field of the
\* allow-list or created_by; created_by is the submission's submitted_by and
\* status is 'approved', neither taken from submission.data; every other field
\* carries submission.data's value, and no other key of submission.data is
\* in the record.
C3_AllowListPlusCreatedBy ==
  call.op = "approve" =>
    \A i \in CreateReqs :
      LET body == call.reqs[i].body
          data == call.submission.data
      IN /\ DOMAIN body \subseteq C3_AllowList \cup {"created_by"}
         /\ "created_by" \in DOMAIN body
         /\ body["created_by"] = call.submission.submitted_by
         /\ "status" \in DOMAIN body
         /\ body["status"] = "approved"
         /\ \A f \in (DOMAIN body) \ {"status", "created_by"} :
              f \in DOMAIN data /\ body[f] = data[f]
         /\ \A k \in (DOMAIN data) \ (C3_AllowList \cup {"created_by"}) :
              k \notin DOMAIN body

C3_Witness ==
  /\ call.op = "approve"
  /\ CreateReqs # {}
  /\ {"role", "created_by"} \subseteq DOMAIN call.submission.data
  /\ \E i \in CreateReqs : "name" \in DOMAIN call.reqs[i].body

FetchReqs == {i \in ReqIdx : call.reqs[i].api = "files.getImage"}

MosqueReqs ==
  {i \in ReqIdx : call.reqs[i].api \in {"mosquesApi.create", "mosquesApi.update"}}

ApprovedUpdates ==
  {i \in ReqIdx : /\ call.reqs[i].api = "submissions.update"
                  /\ call.reqs[i].body.status = "approved"}

\* C8: in every approve call the update to 'approved' is issued only after a
\* mosque create (new_mosque) or update (edit_mosque) succeeded in that call;
\* a call that failed before it leaves the submission's status as it was.
C8_ApprovedOnlyAfterMosqueWrite ==
  call.op = "approve" =>
    /\ \A i \in ApprovedUpdates :
         \E j \in MosqueReqs :
           /\ j < i
           /\ call.reqs[j].ok
           /\ call.reqs[j].api = IF call.submission.type = "new_mosque"
                                 THEN "mosquesApi.create"
                                 ELSE "mosquesApi.update"
    /\ (call.pc = "done" /\ ApprovedUpdates = {}) =>
         /\ call.result \notin {"", "ok"}
         /\ (call.id \in DOMAIN submissions /\ call.submission # EmptyObj) =>
              submissions[call.id].status = call.submission.status

\* mosque records created for submission s
CreatedFor(s) ==
  {i \in 1..Len(mosqueLog) : /\ mosqueLog[i].submission = s
                             /\ mosqueLog[i].req.api = "mosquesApi.create"}

\* C9: over any sequence of approve calls at most one mosque record is
\* created for a given new_mosque submission.
C9_AtMostOneMosquePerSubmission ==
  \A s \in DOMAIN submissions : Cardinality(CreatedFor(s)) <= 1

(***************************************************************************)
(* usersApi.updatePassword                                                 *)
(***************************************************************************)
Passwords == {"hunter2", "s3cret", "letmein"}

\* pb.authStore.model.email
EmailOf(user) == <<user, "@example.com">>

\* the guard, the re-authentication and its catch
updatePassword_verify_unchecked(model, oldPassword, newPassword, passwordConfirm, net) ==
  LET ok == net /\ oldPassword = userPassword
      r  == Req("users.authWithPassword", EmailOf(model), <<>>,
                [password |-> oldPassword], NoFile, ok)
      c  == [IdleUCall EXCEPT !.auth = model, !.oldPassword = oldPassword,
                              !.newPassword = newPassword,
                              !.passwordConfirm = passwordConfirm]
  IN IF ~Truthy(model)
     THEN [c EXCEPT !.pc = "done", !.result = "User not authenticated"]
     ELSE [c EXCEPT !.pc = "update", !.reqs = <<r>>]

updatePassword_verify(model, oldPassword, newPassword, passwordConfirm, net) ==
  LET ok == net /\ oldPassword = userPassword
      r  == Req("users.authWithPassword", EmailOf(model), <<>>,
                [password |-> oldPassword], NoFile, ok)
      c  == [IdleUCall EXCEPT !.auth = model, !.oldPassword = oldPassword,
                              !.newPassword = newPassword,
                              !.passwordConfirm = passwordConfirm]
  IN IF ~Truthy(model)
     THEN [c EXCEPT !.pc = "done", !.result = "User not authenticated"]
     ELSE IF ~ok
     THEN [c EXCEPT !.pc = "done", !.reqs = <<r>>,
                    !.result = "Current password is incorrect"]
     ELSE [c EXCEPT !.pc = "update", !.reqs = <<r>>]

\* pb.collection('users').update(id, {password, passwordConfirm}); the
\* backend refuses a confirmation that differs
updatePassword_update(c, net) ==
  LET ok == net /\ c.newPassword = c.passwordConfirm
      r  == Req("users.update", c.auth, <<>>,
                [password |-> c.newPassword,
                 passwordConfirm |-> c.passwordConfirm], NoFile, ok)
  IN [c EXCEPT !.pc = "done", !.reqs = Append(@, r), !.result = Outcome(ok)]

UpdatePasswordVerify(oldPassword, newPassword, passwordConfirm, net) ==
  /\ ucall.pc \in {"idle", "done"}
  /\ ucall' = updatePassword_verify(authStore, oldPassword, newPassword,
                                    passwordConfirm, net)
  /\ UNCHANGED <<authStore, userPassword, submissions, mosqueLog, call, scriptVars>>

UpdatePasswordUpdate(net) ==
  /\ ucall.pc = "update"
  /\ ucall' = updatePassword_update(ucall, net)
  /\ userPassword' = IF ucall'.result = "ok" THEN ucall.newPassword
                                             ELSE userPassword
  /\ UNCHANGED <<authStore, submissions, mosqueLog, call, scriptVars>>

UsersInit ==
  /\ authStore \in {""} \cup UserIds
  /\ userPassword \in Passwords
  /\ ucall = IdleUCall
  /\ submissions = EmptyObj
  /\ mosqueLog = <<>>
  /\ call = IdleCall
  /\ env = EmptyObj
  /\ collections = EmptyObj
  /\ proc = IdleProc

UsersNext ==
  \/ \E oldPassword \in Passwords, newPassword \in Passwords,
        passwordConfirm \in Passwords, net \in BOOLEAN :
       UpdatePasswordVerify(oldPassword, newPassword, passwordConfirm, net)
  \/ \E net \in BOOLEAN : UpdatePasswordUpdate(net)

UsersSpec == UsersInit /\ [][UsersNext]_vars

UReqIdx == 1..Len(ucall.reqs)

\* C4: updatePassword by a signed-in user first re-authenticates with the old
\* password; when that fails the call fails with 'Current password is
\* incorrect' and no update carrying the new password is issued; the update is
\* issued only after the re-authentication succeeded.
C4_ReauthenticateBeforeUpdate ==
  (ucall.pc # "idle" /\ ucall.auth # "") =>
    /\ Len(ucall.reqs) >= 1
    /\ ucall.reqs[1].api = "users.authWithPassword"
    /\ ucall.reqs[1].id = EmailOf(ucall.auth)
    /\ ucall.reqs[1].body = [password |-> ucall.oldPassword]
    /\ ~ucall.reqs[1].ok =>
         /\ ucall.pc = "done"
         /\ ucall.result = "Current password is incorrect"
         /\ Len(ucall.reqs) = 1
    /\ \A i \in UReqIdx :
         ucall.reqs[i].api = "users.update" =>
           /\ i = 2
           /\ ucall.reqs[1].ok
           /\ ucall.reqs[i].body = [password |-> ucall.newPassword,
                                    passwordConfirm |-> ucall.passwordConfirm]

C4_Witness ==
  /\ ucall.pc = "done"
  /\ ucall.auth # ""
  /\ ucall.oldPassword # userPassword
  /\ ucall.result = "Current password is incorrect"

(***************************************************************************)
(* scripts/fix-audit-logs-permissions.js                                   *)
(***************************************************************************)
AdminEmail    == "admin@example.com"
AdminPassword == "adminpass"
Url           == "http://127.0.0.1:8090"

EnvInputs ==
  [VITE_POCKETBASE_URL : {"", Url},
   POCKETBASE_URL : {"", Url},
   POCKETBASE_ADMIN_EMAIL : {"", AdminEmail},
   POCKETBASE_ADMIN_PASSWORD : {"", AdminPassword, "stale"}]

\* what the operator may type at the prompts
PromptEmails    == {AdminEmail, ""}
PromptPasswords == {AdminPassword, "typo"}

\* a rule is null (superusers only), "" (public) or an expression
NullRule      == "null"
AuthedRule    == "@request.auth.id != \"\""
AdminRule     == "@request.auth.role = \"admin\""

AuditLogsId == "pbc_audit_logs0"
MosquesId   == "pbc_mosques0000"

Rules(l, v, c, u, d) ==
  [listRule |-> l, viewRule |-> v, createRule |-> c, updateRule |-> u,
   deleteRule |-> d]

\* rule sets the audit_logs collection may have before the script runs
AuditRuleInputs ==
  { Rules(NullRule, NullRule, NullRule, NullRule, NullRule),
    Rules(AdminRule, AdminRule, NullRule, NullRule, NullRule),
    Rules(AdminRule, AdminRule, AuthedRule, NullRule, AdminRule),
    Rules("", "", "", AuthedRule, NullRule) }

MosquesCollection ==
  Merge([id |-> MosquesId, name |-> "mosques"],
        Rules("", "", AuthedRule, AdminRule, AdminRule))

CollectionsInputs ==
  { [i \in {MosquesId} |-> MosquesCollection] } \cup
  { [i \in {MosquesId, AuditLogsId} |->
       IF i = MosquesId THEN MosquesCollection
       ELSE Merge([id |-> AuditLogsId, name |-> "audit_logs"], r)] :
    r \in AuditRuleInputs }

\* const POCKETBASE_URL = process.env.VITE_POCKETBASE_URL || process.env.POCKETBASE_URL
POCKETBASE_URL(e) ==
  IF Truthy(e.VITE_POCKETBASE_URL) THEN e.VITE_POCKETBASE_URL
  ELSE e.POCKETBASE_URL

\* process.exit(code)
Exit(p, code) == [p EXCEPT !.pc = "exited", !.exited = TRUE, !.exitCode = code]

\* module start: the URL check, then readline.createInterface
boot(p, e) ==
  IF ~Truthy(POCKETBASE_URL(e))
  THEN Exit(p, "1")
  ELSE [p EXCEPT !.pc = "authenticate", !.rlOpen = TRUE]

AdminAuthReq(email, password, net) ==
  Req("admins.authWithPassword", email, <<>>, [password |-> password], NoFile,
      net /\ email = AdminEmail /\ password = AdminPassword)

\* authenticate(): the attempt with the environment's credentials
authenticate_env(p, e, net) ==
  LET adminEmail == e.POCKETBASE_ADMIN_EMAIL
      adminPassword == e.POCKETBASE_ADMIN_PASSWORD
      r == AdminAuthReq(adminEmail, adminPassword, net)
  IN IF Truthy(adminEmail) /\ Truthy(adminPassword)
     THEN IF r.ok
          THEN [p EXCEPT !.pc = "fix_get", !.authSuccess = "true",
                         !.reqs = Append(@, r)]
          ELSE [p EXCEPT !.pc = "prompt", !.reqs = Append(@, r)]
     ELSE [p EXCEPT !.pc = "prompt"]

\* the two questions, then rl.close()
authenticate_prompt(p, email, password) ==
  [p EXCEPT !.pc = "auth_prompted", !.email = email, !.password = password,
            !.rlOpen = FALSE]

\* the attempt with the typed credentials, and main's exit when it failed,
\* here left out
authenticate_prompted_noexit(p, net) ==
  LET r == AdminAuthReq(p.email, p.password, net)
  IN IF r.ok
     THEN [p EXCEPT !.pc = "fix_get", !.authSuccess = "true",
                    !.reqs = Append(@, r)]
     ELSE [p EXCEPT !.pc = "fix_get", !.authSuccess = "false",
                    !.reqs = Append(@, r)]

\* the attempt with the typed credentials, and main's exit when it failed
authenticate_prompted(p, net) ==
  LET r == AdminAuthReq(p.email, p.password, net)
  IN IF r.ok
     THEN [p EXCEPT !.pc = "fix_get", !.authSuccess = "true",
                    !.reqs = Append(@, r)]
     ELSE Exit([p EXCEPT !.authSuccess = "false", !.reqs = Append(@, r)], "1")

\* the collection of that name or id, or none
CollectionNamed(name) ==
  {i \in DOMAIN collections : collections[i].name = name \/ i = name}

\* pb.collections.getOne('audit_logs'); a failure is caught, reported by
\* fixAuditLogsPermissions and ends main with process.exit(1)
fix_getOne(p, net) ==
  LET found == CollectionNamed("audit_logs")
      ok == net /\ found # {}
      r == Req("collections.getOne", "audit_logs", <<>>, EmptyObj, NoFile, ok)
  IN IF ok
     THEN [p EXCEPT !.pc = "fix_update", !.reqs = Append(@, r),
                    !.collection = collections[CHOOSE i \in found : TRUE]]
     ELSE Exit([p EXCEPT !.reqs = Append(@, r)], "1")

\* a patch that rewrites every rule of the collection
CreateRulePatch_everyRule ==
  Rules(AuthedRule, AuthedRule, AuthedRule, AuthedRule, AuthedRule)

\* the body of the update request
CreateRulePatch == [createRule |-> AuthedRule]

\* pb.collections.update(collection.id, {createRule}); as for getOne
fix_update(p, net) ==
  LET ok == net /\ p.collection.id \in DOMAIN collections
      r == Req("collections.update", p.collection.id, <<>>, CreateRulePatch,
               NoFile, ok)
  IN IF ok
     THEN [p EXCEPT !.pc = "main_done", !.reqs = Append(@, r)]
     ELSE Exit([p EXCEPT !.reqs = Append(@, r)], "1")

Boot ==
  /\ proc.pc = "boot"
  /\ proc' = boot(proc, env)
  /\ UNCHANGED <<env, collections, subVars, userVars>>

AuthenticateEnv(net) ==
  /\ proc.pc = "authenticate"
  /\ proc' = authenticate_env(proc, env, net)
  /\ UNCHANGED <<env, collections, subVars, userVars>>

AuthenticatePrompt(email, password) ==
  /\ proc.pc = "prompt"
  /\ proc' = authenticate_prompt(proc, email, password)
  /\ UNCHANGED <<env, collections, subVars, userVars>>

AuthenticatePrompted(net) ==
  /\ proc.pc = "auth_prompted"
  /\ proc' = authenticate_prompted(proc, net)
  /\ UNCHANGED <<env, collections, subVars, userVars>>

FixGetOne(net) ==
  /\ proc.pc = "fix_get"
  /\ proc' = fix_getOne(proc, net)
  /\ UNCHANGED <<env, collections, subVars, userVars>>

FixUpdate(net) ==
  /\ proc.pc = "fix_update"
  /\ proc' = fix_update(proc, net)
  /\ collections' =
       IF proc'.pc = "main_done"
       THEN [collections EXCEPT ![proc.collection.id] =
               Merge(@, proc'.reqs[Len(proc'.reqs)].body)]
       ELSE collections
  /\ UNCHANGED <<env, subVars, userVars>>

\* main has returned: with the prompt interface closed nothing keeps the
\* event loop alive and node exits with status 0
ProcessEnds ==
  /\ proc.pc = "main_done"
  /\ ~proc.rlOpen
  /\ proc' = Exit(proc, "0")
  /\ UNCHANGED <<env, collections, subVars, userVars>>

ScriptInit ==
  /\ env \in EnvInputs
  /\ collections \in CollectionsInputs
  /\ proc = IdleProc
  /\ authStore = ""
  /\ submissions = EmptyObj
  /\ mosqueLog = <<>>
  /\ call = IdleCall
  /\ userPassword = ""
  /\ ucall = IdleUCall

ScriptNext ==
  \/ Boot
  \/ \E net \in BOOLEAN : AuthenticateEnv(net)
  \/ \E email \in PromptEmails, password \in PromptPasswords :
       AuthenticatePrompt(email, password)
  \/ \E net \in BOOLEAN : AuthenticatePrompted(net)
  \/ \E net \in BOOLEAN : FixGetOne(net)
  \/ \E net \in BOOLEAN : FixUpdate(net)
  \/ ProcessEnds

ScriptSpec == ScriptInit /\ [][ScriptNext]_vars

(***************************************************************************)
(* Properties of the script                                                *)
(***************************************************************************)
PReqIdx == 1..Len(proc.reqs)

CollectionUpdates == {i \in PReqIdx : proc.reqs[i].api = "collections.update"}

CollectionReqs ==
  {i \in PReqIdx : proc.reqs[i].api \in {"collections.getOne", "collections.update"}}

RuleNames == {"listRule", "viewRule", "createRule", "updateRule", "deleteRule"}

\* main ran to its end: authentication, read and update all succeeded
ScriptSucceeded ==
  proc.pc = "main_done" \/ (proc.exited /\ proc.exitCode = "0")

\* C6: the only update the script sends goes to audit_logs, sets createRule to
\* the literal @request.auth.id != "" and carries no other rule; after a
\* successful run the other four rules are what they were, and no other
\* collection has changed.
C6_OnlyCreateRuleChanges ==
  /\ Cardinality(CollectionUpdates) <= 1
  /\ \A i \in CollectionUpdates :
       /\ proc.reqs[i].id = AuditLogsId
       /\ DOMAIN proc.reqs[i].body = {"createRule"}
       /\ proc.reqs[i].body["createRule"] = "@request.auth.id != \"\""
  /\ collections[MosquesId] = MosquesCollection
  /\ ScriptSucceeded =>
       /\ CollectionUpdates # {}
       /\ collections[AuditLogsId].createRule = "@request.auth.id != \"\""
       /\ \A rule \in RuleNames \ {"createRule"} :
            collections[AuditLogsId][rule] = proc.collection[rule]
  /\ ~ScriptSucceeded =>
       \A c \in DOMAIN collections :
         proc.collection # EmptyObj /\ c = proc.collection.id =>
           collections[c] = proc.collection

C6_Witness ==
  /\ proc.pc = "main_done"
  /\ proc.collection.createRule = NullRule
  /\ proc.collection.listRule = AdminRule
  /\ collections[AuditLogsId].listRule = AdminRule
  /\ collections[AuditLogsId].createRule = AuthedRule

\* C7: the script exits with a non-zero status whenever authentication finally
\* fails or the collection read or update fails; no collection request is
\* issued unless an authentication succeeded before it.
C7_FailureExitsNonZero ==
  /\ proc.authSuccess = "false" =>
       /\ proc.exited /\ proc.exitCode = "1"
       /\ CollectionReqs = {}
  /\ (\E i \in CollectionReqs : ~proc.reqs[i].ok) =>
       proc.exited /\ proc.exitCode = "1"
  /\ \A i \in CollectionReqs :
       \E j \in PReqIdx :
         j < i /\ proc.reqs[j].api = "admins.authWithPassword" /\ proc.reqs[j].ok

C7_Witness ==
  /\ proc.authSuccess = "false"
  /\ proc.exited
  /\ proc.exitCode = "1"
  /\ Len(proc.reqs) = 2
  /\ CollectionReqs = {}

\* C10: on every path through authenticate and main, by the time main
\* completes the readline interface has been closed or process.exit called.
C10_PromptClosedOrExited ==
  proc.pc \in {"main_done", "exited"} => (~proc.rlOpen \/ proc.exited)

====
